---- MODULE Spec2Model ----
(***************************************************************************)
(* Model of src/app.py: the NRIC name comparator.  One run of the script   *)
(* takes two uploaded sheets (Excel A = old list, Excel B = new list),     *)
(* validates the name column, normalizes the names, computes the added and *)
(* removed rows, shows a summary and builds the two-sheet workbook.        *)
(*                                                                         *)
(* A text value is a sequence of one-character strings; a missing cell is  *)
(* the value NaN.  A DataFrame is a record of its column labels, its index *)
(* labels and its rows (functions from column label to value).             *)
(***************************************************************************)
EXTENDS Integers, Sequences, FiniteSets, TLC

VARIABLES
    file_a,            \* upload widget "file_a": NoFile or an uploaded sheet
    file_b,            \* upload widget "file_b"
    astype_keeps_na,   \* pandas build: does Series.astype(str) keep NaN (3.x) or give "nan" (1.x, 2.x)
    pc,                \* position of the script run
    missing,           \* the list `missing` of line 64
    error,             \* the datasets listed by st.error (line 71), in message order
    a_norm, b_norm,    \* lines 75-76
    a_set, b_set,      \* lines 78-79
    new_rows_b,        \* line 84
    removed_rows_a,    \* line 85
    summary,           \* the four counts written at lines 89-93
    new_rows_b_out,    \* line 122
    removed_rows_a_out,\* line 123
    download,          \* the workbook handed to st.download_button (lines 125-135)
    series,            \* argument of a direct call of normalize_name
    normalized         \* its result

vars == <<file_a, file_b, astype_keeps_na, pc, missing, error, a_norm, b_norm,
          a_set, b_set, new_rows_b, removed_rows_a, summary, new_rows_b_out,
          removed_rows_a_out, download, series, normalized>>

(***************************** bounds **************************************)
MaxRows == 2
MaxStrLen == 4

(***************************** constants ***********************************)
NAME_COL == "Full Name As Per NRIC"
SERIAL_COL == "S/N"
OTHER_COL == "Company"

NaN == <<"NaN">>

Whitespace == {" ", "\t"}
Chars == {"a", "B", " ", "\t"}

Range(f) == {f[i] : i \in DOMAIN f}

(***************************** text helpers ********************************)
\* str.upper() on one character
UpperChar(c) ==
    CASE c = "a" -> "A"
      [] c = "b" -> "B"
      [] c = "c" -> "C"
      [] c = "n" -> "N"
      [] OTHER -> c

RECURSIVE lstrip(_)
lstrip(s) ==
    IF s = <<>> THEN <<>>
    ELSE IF Head(s) \in Whitespace THEN lstrip(Tail(s)) ELSE s

RECURSIVE rstrip(_)
rstrip(s) ==
    IF s = <<>> THEN <<>>
    ELSE IF s[Len(s)] \in Whitespace THEN rstrip(SubSeq(s, 1, Len(s) - 1)) ELSE s

\* .str.strip()
str_strip(s) == rstrip(lstrip(s))

\* .str.replace(r"\s+", " ", regex=True): every maximal whitespace run becomes one space
RECURSIVE str_replace_ws(_)
str_replace_ws(s) ==
    IF s = <<>> THEN <<>>
    ELSE IF Head(s) \in Whitespace
         THEN <<" ">> \o str_replace_ws(lstrip(Tail(s)))
         ELSE <<Head(s)>> \o str_replace_ws(Tail(s))

\* .str.upper()
str_upper(s) == [i \in 1..Len(s) |-> UpperChar(s[i])]

\* .astype(str) on one cell: str(float("nan")) is "nan" before pandas 3;
\* pandas 3 keeps the missing value
astype_str(v, keeps) ==
    IF v = NaN THEN (IF keeps THEN NaN ELSE <<"n", "a", "n">>) ELSE v

\* .fillna("") on one cell
fillna(v) == IF v = NaN THEN <<>> ELSE v

normalize_name_noStrip(s, keeps) ==
    [i \in 1..Len(s) |-> str_upper(str_replace_ws(fillna(astype_str(s[i], keeps))))]

normalize_name_noUpper(s, keeps) ==
    [i \in 1..Len(s) |-> str_replace_ws(str_strip(fillna(astype_str(s[i], keeps))))]

normalize_name(s, keeps) ==
    LET s1 == [i \in 1..Len(s) |-> str_strip(fillna(astype_str(s[i], keeps)))]
        s2 == [i \in 1..Len(s1) |-> str_replace_ws(s1[i])]
        s3 == [i \in 1..Len(s2) |-> str_upper(s2[i])]
    IN s3

(***************************** DataFrame helpers ***************************)
NoFrame == [columns |-> <<>>, index |-> <<>>, data |-> <<>>]

\* a parsed sheet: RangeIndex 0..n-1, the name column holds names[i], every
\* other column holds the row's position
MkFrame(cols, names) ==
    [columns |-> cols,
     index   |-> [i \in 1..Len(names) |-> i - 1],
     data    |-> [i \in 1..Len(names) |->
                    [c \in Range(cols) |-> IF c = NAME_COL THEN names[i] ELSE i]]]

\* df[col]
Column(df, col) == [i \in 1..Len(df.data) |-> df.data[i][col]]

\* positions of the True entries of a boolean mask, ascending
TruePositions(mask) ==
    LET F[k \in 0..Len(mask)] ==
            IF k = 0 THEN <<>>
            ELSE IF mask[k] THEN Append(F[k - 1], k) ELSE F[k - 1]
    IN F[Len(mask)]

Reverse(s) == [i \in 1..Len(s) |-> s[Len(s) + 1 - i]]

loc_reversed(df, mask) ==
    LET p == Reverse(TruePositions(mask))
    IN [columns |-> df.columns,
        index   |-> [k \in 1..Len(p) |-> df.index[p[k]]],
        data    |-> [k \in 1..Len(p) |-> df.data[p[k]]]]

\* df.loc[mask].copy()
loc(df, mask) ==
    LET p == TruePositions(mask)
    IN [columns |-> df.columns,
        index   |-> [k \in 1..Len(p) |-> df.index[p[k]]],
        data    |-> [k \in 1..Len(p) |-> df.data[p[k]]]]

isin_firstOnly(norm, keys) ==
    [i \in 1..Len(norm) |-> norm[i] \in keys /\ \A j \in 1..(i - 1) : norm[j] # norm[i]]

\* norm.isin(keys)
isin(norm, keys) == [i \in 1..Len(norm) |-> norm[i] \in keys]

KeySet_keepEmpty(norm) == Range(norm)

\* set(norm[norm != ""].tolist())
KeySet(norm) == {norm[i] : i \in {j \in 1..Len(norm) : norm[j] # <<>>}}

AddedKeys_swapped(old_set, new_set) == old_set \ new_set

\* b_set - a_set (line 81); a_set - b_set with the arguments exchanged (line 82)
AddedKeys(old_set, new_set) == new_set \ old_set

\* df.insert(0, SERIAL_COL, ...) raises ValueError when the label exists
InsertRaises(df) == SERIAL_COL \in Range(df.columns)

add_serial_number_from0(df) ==
    [columns |-> <<SERIAL_COL>> \o df.columns,
     index   |-> [i \in 1..Len(df.data) |-> i - 1],
     data    |-> [i \in 1..Len(df.data) |->
                    [c \in Range(df.columns) \cup {SERIAL_COL} |->
                        IF c = SERIAL_COL THEN i - 1 ELSE df.data[i][c]]]]

\* reset_index(drop=True).copy(), then insert(0, SERIAL_COL, range(1, len+1))
add_serial_number(df) ==
    [columns |-> <<SERIAL_COL>> \o df.columns,
     index   |-> [i \in 1..Len(df.data) |-> i - 1],
     data    |-> [i \in 1..Len(df.data) |->
                    [c \in Range(df.columns) \cup {SERIAL_COL} |->
                        IF c = SERIAL_COL THEN i ELSE df.data[i][c]]]]

\* one sheet per table, index=False
to_xlsx_bytes(names, frames) ==
    [k \in 1..Len(names) |->
        [sheet_name |-> names[k], columns |-> frames[k].columns, data |-> frames[k].data]]

MissingColumns_elif(dfa, dfb) ==
    IF NAME_COL \notin Range(dfa.columns) THEN <<"Excel A">>
    ELSE IF NAME_COL \notin Range(dfb.columns) THEN <<"Excel B">>
    ELSE <<>>

\* lines 64-68
MissingColumns(dfa, dfb) ==
    (IF NAME_COL \notin Range(dfa.columns) THEN <<"Excel A">> ELSE <<>>)
    \o (IF NAME_COL \notin Range(dfb.columns) THEN <<"Excel B">> ELSE <<>>)

(***************************** inputs **************************************)
\* raw name cells of a parsed sheet: missing (the parser reads an empty cell as
\* NaN), blank, two spellings of one name, another name
CellPool ==
    { NaN, <<" ", "\t">>, <<"a", " ", "b">>,
      <<" ", "A", "\t", " ", "B", " ">>, <<"c">> }

NameSeqs == UNION {[1..n -> CellPool] : n \in 0..MaxRows}

NameLayouts == {<<OTHER_COL, NAME_COL>>, <<SERIAL_COL, NAME_COL>>}

Sheets ==
    {MkFrame(l, names) : l \in NameLayouts, names \in NameSeqs}
    \cup {MkFrame(<<OTHER_COL>>, [i \in 1..n |-> NaN]) : n \in 0..MaxRows}

NoFile == [uploaded |-> FALSE, df |-> NoFrame]
Uploads == {[uploaded |-> TRUE, df |-> d] : d \in Sheets}

\* pick_sheet: the parsed sheet of the upload
pick_sheet(file) == file.df

df_a == pick_sheet(file_a)
df_b == pick_sheet(file_b)

NoSummary == [rows_a |-> -1, rows_b |-> -1, new |-> -1, removed |-> -1]

Texts == UNION {[1..n -> Chars] : n \in 0..MaxStrLen}
RawValues == Texts \cup {NaN}
SeriesInputs ==
    {<<>>} \cup {<<v>> : v \in RawValues}
    \cup {<<v, w>> : v \in RawValues, w \in CellPool}

(***************************** the script run ******************************)
Blank ==
    /\ missing = <<>>
    /\ error = <<>>
    /\ a_norm = <<>> /\ b_norm = <<>>
    /\ a_set = {} /\ b_set = {}
    /\ new_rows_b = NoFrame /\ removed_rows_a = NoFrame
    /\ summary = NoSummary
    /\ new_rows_b_out = NoFrame /\ removed_rows_a_out = NoFrame
    /\ download = <<>>

Init ==
    /\ file_a \in Uploads \cup {NoFile}
    /\ file_b \in Uploads \cup {NoFile}
    /\ astype_keeps_na \in BOOLEAN
    /\ pc = "start"
    /\ Blank
    /\ series = <<>> /\ normalized = <<>>

\* line 137-138: not both files uploaded
AwaitUploads ==
    /\ pc = "start"
    /\ ~(file_a.uploaded /\ file_b.uploaded)
    /\ pc' = "info"
    /\ UNCHANGED <<file_a, file_b, astype_keeps_na, missing, error, a_norm, b_norm,
                   a_set, b_set, new_rows_b, removed_rows_a, summary, new_rows_b_out,
                   removed_rows_a_out, download, series, normalized>>

\* lines 58-72: pick the sheets, validate the column, st.error + st.stop
Validate ==
    /\ pc = "start"
    /\ file_a.uploaded /\ file_b.uploaded
    /\ missing' = MissingColumns(df_a, df_b)
    /\ IF missing' # <<>>
       THEN error' = missing' /\ pc' = "stopped"
       ELSE error' = <<>> /\ pc' = "validated"
    /\ UNCHANGED <<file_a, file_b, astype_keeps_na, a_norm, b_norm,
                   a_set, b_set, new_rows_b, removed_rows_a, summary, new_rows_b_out,
                   removed_rows_a_out, download, series, normalized>>

\* lines 74-93: normalize, key sets, masks, row subsets, then the summary line
\* (the previews of lines 96-117 render new_rows_b and removed_rows_a and keep
\* no state)
Compare ==
    /\ pc = "validated"
    /\ a_norm' = normalize_name(Column(df_a, NAME_COL), astype_keeps_na)
    /\ b_norm' = normalize_name(Column(df_b, NAME_COL), astype_keeps_na)
    /\ a_set' = KeySet(a_norm')
    /\ b_set' = KeySet(b_norm')
    /\ LET new_mask_b == isin(b_norm', AddedKeys(a_set', b_set'))
           removed_mask_a == isin(a_norm', AddedKeys(b_set', a_set'))
       IN /\ new_rows_b' = loc(df_b, new_mask_b)
          /\ removed_rows_a' = loc(df_a, removed_mask_a)
    /\ summary' = [rows_a |-> Len(df_a.data), rows_b |-> Len(df_b.data),
                   new |-> Len(new_rows_b'.data), removed |-> Len(removed_rows_a'.data)]
    /\ pc' = "compared"
    /\ UNCHANGED <<file_a, file_b, astype_keeps_na, missing, error,
                   new_rows_b_out, removed_rows_a_out, download, series, normalized>>

\* lines 120-135; a ValueError of DataFrame.insert ends the run
Download ==
    /\ pc = "compared"
    /\ IF InsertRaises(new_rows_b)
       THEN /\ pc' = "raised"
            /\ UNCHANGED <<new_rows_b_out, removed_rows_a_out, download>>
       ELSE IF InsertRaises(removed_rows_a)
       THEN /\ pc' = "raised"
            /\ new_rows_b_out' = add_serial_number(new_rows_b)
            /\ UNCHANGED <<removed_rows_a_out, download>>
       ELSE /\ pc' = "downloaded"
            /\ new_rows_b_out' = add_serial_number(new_rows_b)
            /\ removed_rows_a_out' = add_serial_number(removed_rows_a)
            /\ download' = to_xlsx_bytes(<<"New_in_Excel_B", "Removed_from_Excel_A">>,
                                         <<new_rows_b_out', removed_rows_a_out'>>)
    /\ UNCHANGED <<file_a, file_b, astype_keeps_na, missing, error, a_norm, b_norm,
                   a_set, b_set, new_rows_b, removed_rows_a, summary, series, normalized>>

Next == AwaitUploads \/ Validate \/ Compare \/ Download

Spec == Init /\ [][Next]_vars

(***************************** normalize_name alone ************************)
NormInit ==
    /\ file_a = NoFile /\ file_b = NoFile
    /\ astype_keeps_na \in BOOLEAN
    /\ pc = "call"
    /\ Blank
    /\ series \in SeriesInputs
    /\ normalized = <<>>

\* lines 25-29
NormalizeCall ==
    /\ pc = "call"
    /\ normalized' = normalize_name(series, astype_keeps_na)
    /\ pc' = "returned"
    /\ UNCHANGED <<file_a, file_b, astype_keeps_na, missing, error, a_norm, b_norm,
                   a_set, b_set, new_rows_b, removed_rows_a, summary, new_rows_b_out,
                   removed_rows_a_out, download, series>>

NormNext == NormalizeCall

NormSpec == NormInit /\ [][NormNext]_vars

(***************************** properties **********************************)
Compared == pc \in {"compared", "downloaded", "raised"}

\* the normalized keys of the rows of df, in row order
Keys(df) == normalize_name(Column(df, NAME_COL), astype_keeps_na)

RowsOf(df) == 1..Len(df.data)

\* the non-empty keys among ks
NonEmpty(ks) == Range(ks) \ {<<>>}

\* the index labels of a row subset as row positions of its source
Positions(sub) == {sub.index[k] + 1 : k \in 1..Len(sub.index)}

\* sub holds exactly the rows of df at the positions S, each once, unchanged
HoldsExactly(sub, df, S) ==
    /\ sub.columns = df.columns
    /\ \A T \in {S} : Len(sub.data) = Cardinality(T) /\ Positions(sub) = T
    /\ Len(sub.index) = Len(sub.data)
    /\ \A k \in 1..Len(sub.data) : sub.data[k] = df.data[sub.index[k] + 1]

\* a cell that is the empty string or only whitespace
IsBlankCell(v) == v # NaN /\ \A k \in 1..Len(v) : v[k] \in Whitespace

\* C1: after the comparison, "added" is exactly the rows of new whose key is
\* non-empty and not among old's keys, "removed" exactly the rows of old whose
\* key is non-empty and not among new's keys; rows sharing such a key are all kept.
C1_AddedRemovedExact ==
    Compared =>
        \A ka \in {Keys(df_a)}, kb \in {Keys(df_b)} :
           \A oldKeys \in {NonEmpty(ka)}, newKeys \in {NonEmpty(kb)} :
           /\ HoldsExactly(new_rows_b, df_b,
                 {i \in RowsOf(df_b) : kb[i] # <<>> /\ kb[i] \notin oldKeys})
           /\ HoldsExactly(removed_rows_a, df_a,
                 {i \in RowsOf(df_a) : ka[i] # <<>> /\ ka[i] \notin newKeys})

C1_Witness ==
    /\ Compared
    /\ Len(new_rows_b.data) = 2
    /\ b_norm[1] = b_norm[2]
    /\ Len(removed_rows_a.data) >= 1

\* letter case removed from one character
FoldChar(c) ==
    CASE c = "A" -> "a"
      [] c = "B" -> "b"
      [] c = "C" -> "c"
      [] c = "N" -> "n"
      [] OTHER -> c

\* the words of a text: its maximal runs of non-whitespace, case removed
RECURSIVE WordsFrom(_, _, _)
WordsFrom(s, word, done) ==
    IF s = <<>> THEN (IF word = <<>> THEN done ELSE Append(done, word))
    ELSE IF Head(s) \in Whitespace
         THEN WordsFrom(Tail(s), <<>>, IF word = <<>> THEN done ELSE Append(done, word))
         ELSE WordsFrom(Tail(s), Append(word, FoldChar(Head(s))), done)

\* the words of each present name of df, in row order (a missing name has none)
Words(df) ==
    [i \in RowsOf(df) |->
        IF df.data[i][NAME_COL] = NaN THEN <<>>
        ELSE WordsFrom(df.data[i][NAME_COL], <<>>, <<>>)]

Present(df, i) == df.data[i][NAME_COL] # NaN

\* C2: a row whose normalized key occurs in both datasets (in particular a name
\* spelled with other case or whitespace in the other dataset) is in neither result,
\* and when both datasets have the same set of normalized names both results are empty.
C2_SharedKeyInNeither ==
    Compared =>
        \A ka \in {Keys(df_a)}, kb \in {Keys(df_b)} :
           /\ \A i \in RowsOf(df_b) :
                 (\E j \in RowsOf(df_a) : ka[j] = kb[i]) => i \notin Positions(new_rows_b)
           /\ \A j \in RowsOf(df_a) :
                 (\E i \in RowsOf(df_b) : kb[i] = ka[j]) => j \notin Positions(removed_rows_a)
           /\ \A wa \in {Words(df_a)}, wb \in {Words(df_b)} :
              \A i \in RowsOf(df_b), j \in RowsOf(df_a) :
                 \* two present names differing at most in case and whitespace
                 (Present(df_a, j) /\ Present(df_b, i) /\ wa[j] = wb[i])
                    => (i \notin Positions(new_rows_b) /\ j \notin Positions(removed_rows_a))
           /\ Range(ka) = Range(kb)
                 => (new_rows_b.data = <<>> /\ removed_rows_a.data = <<>>)

C2_Witness ==
    /\ Compared
    /\ \E i \in RowsOf(df_b), j \in RowsOf(df_a) :
          /\ df_a.data[j][NAME_COL] # df_b.data[i][NAME_COL]
          /\ Keys(df_a)[j] = Keys(df_b)[i]
          /\ Keys(df_a)[j] # <<>>
    /\ new_rows_b.data = <<>>
    /\ removed_rows_a.data = <<>>

\* C3: a missing name normalizes to the empty string, is never in its dataset's
\* key set and its row is never added or removed.
C3_MissingNameIsEmptyKey ==
    Compared =>
        /\ \A i \in RowsOf(df_a) : df_a.data[i][NAME_COL] = NaN =>
              /\ a_norm[i] = <<>>
              /\ a_norm[i] \notin a_set
              /\ i \notin Positions(removed_rows_a)
        /\ \A i \in RowsOf(df_b) : df_b.data[i][NAME_COL] = NaN =>
              /\ b_norm[i] = <<>>
              /\ b_norm[i] \notin b_set
              /\ i \notin Positions(new_rows_b)

\* C4: a row whose name is empty or only whitespace is in neither result, the
\* empty key is in neither key set, and such rows do not change the other
\* dataset's result.
C4_BlankNameExcluded ==
    Compared =>
        \A ka \in {Keys(df_a)}, kb \in {Keys(df_b)} :
        \A keysA \in {{ka[r] : r \in {r \in RowsOf(df_a) : ~IsBlankCell(df_a.data[r][NAME_COL])}}},
           keysB \in {{kb[r] : r \in {r \in RowsOf(df_b) : ~IsBlankCell(df_b.data[r][NAME_COL])}}} :
           /\ \A i \in RowsOf(df_b) : IsBlankCell(df_b.data[i][NAME_COL]) =>
                 i \notin Positions(new_rows_b)
           /\ \A i \in RowsOf(df_a) : IsBlankCell(df_a.data[i][NAME_COL]) =>
                 i \notin Positions(removed_rows_a)
           /\ <<>> \notin a_set /\ <<>> \notin b_set
           /\ Positions(new_rows_b)
                 = {i \in RowsOf(df_b) : kb[i] # <<>> /\ kb[i] \notin keysA}
           /\ Positions(removed_rows_a)
                 = {i \in RowsOf(df_a) : ka[i] # <<>> /\ ka[i] \notin keysB}

C4_Witness ==
    /\ Compared
    /\ \E i \in RowsOf(df_b) : df_b.data[i][NAME_COL] = <<" ", "\t">>
    /\ \A i \in RowsOf(df_a) : IsBlankCell(df_a.data[i][NAME_COL])
    /\ Len(new_rows_b.data) = 1

NothingProduced ==
    /\ a_norm = <<>> /\ b_norm = <<>>
    /\ a_set = {} /\ b_set = {}
    /\ new_rows_b = NoFrame /\ removed_rows_a = NoFrame
    /\ summary = NoSummary
    /\ new_rows_b_out = NoFrame /\ removed_rows_a_out = NoFrame
    /\ download = <<>>

\* C5: when the name column is absent from the old dataset, the new one or both,
\* the run stops at validation, the error lists every dataset lacking the column,
\* and nothing is normalized, compared, summarized or offered for download.
C5_MissingColumnStops ==
    LET lacking == {d \in {"Excel A", "Excel B"} :
                      \/ d = "Excel A" /\ NAME_COL \notin Range(df_a.columns)
                      \/ d = "Excel B" /\ NAME_COL \notin Range(df_b.columns)}
    IN (file_a.uploaded /\ file_b.uploaded /\ pc # "start" /\ lacking # {}) =>
          /\ pc = "stopped"
          /\ Range(error) = lacking
          /\ Len(error) = Cardinality(lacking)
          /\ NothingProduced

C5_Witness ==
    /\ pc = "stopped"
    /\ error = <<"Excel A", "Excel B">>
    /\ Len(df_a.data) = 2 /\ Len(df_b.data) = 1

StrictlyIncreasing(s) == \A k \in 1..(Len(s) - 1) : s[k] < s[k + 1]

\* the table without its serial column
WithoutSerial(out) ==
    [k \in 1..Len(out.data) |-> [c \in DOMAIN out.data[k] \ {SERIAL_COL} |-> out.data[k][c]]]

\* C6: added keeps the relative row order of new, removed that of old, and the
\* serial numbers follow that order.
C6_OrderPreserved ==
    /\ Compared =>
          /\ StrictlyIncreasing(new_rows_b.index)
          /\ \A k \in 1..Len(new_rows_b.data) :
                new_rows_b.data[k] = df_b.data[new_rows_b.index[k] + 1]
          /\ StrictlyIncreasing(removed_rows_a.index)
          /\ \A k \in 1..Len(removed_rows_a.data) :
                removed_rows_a.data[k] = df_a.data[removed_rows_a.index[k] + 1]
    /\ pc = "downloaded" =>
          /\ WithoutSerial(new_rows_b_out) = new_rows_b.data
          /\ \A k \in 1..Len(new_rows_b_out.data) : new_rows_b_out.data[k][SERIAL_COL] = k
          /\ WithoutSerial(removed_rows_a_out) = removed_rows_a.data
          /\ \A k \in 1..Len(removed_rows_a_out.data) : removed_rows_a_out.data[k][SERIAL_COL] = k

C6_Witness ==
    /\ pc = "downloaded"
    /\ Len(new_rows_b_out.data) = 2
    /\ new_rows_b.data[1] # new_rows_b.data[2]
    /\ Len(removed_rows_a_out.data) = 1
    /\ removed_rows_a.index = <<1>>

\* C7: the S/N column of a table returned by add_serial_number is 1..N in row
\* order, N being the subset's row count and the count shown in the summary.
C7_SerialContiguous ==
    /\ new_rows_b_out # NoFrame =>
          /\ Column(new_rows_b_out, SERIAL_COL) = [k \in 1..Len(new_rows_b.data) |-> k]
          /\ summary.new = Len(new_rows_b_out.data)
    /\ removed_rows_a_out # NoFrame =>
          /\ Column(removed_rows_a_out, SERIAL_COL) = [k \in 1..Len(removed_rows_a.data) |-> k]
          /\ summary.removed = Len(removed_rows_a_out.data)

C7_Witness ==
    /\ pc = "downloaded"
    /\ new_rows_b.index = <<1>>
    /\ Len(removed_rows_a_out.data) = 2
    /\ Len(df_b.data) = 2

\* C8: whatever the columns of the source dataset, add_serial_number succeeds and
\* returns S/N followed by all original columns in order, every row and value kept.
C8_AddSerialAlwaysSucceeds ==
    pc \in {"downloaded", "raised"} =>
        /\ new_rows_b_out.columns = <<SERIAL_COL>> \o df_b.columns
        /\ WithoutSerial(new_rows_b_out) = new_rows_b.data
        /\ removed_rows_a_out.columns = <<SERIAL_COL>> \o df_a.columns
        /\ WithoutSerial(removed_rows_a_out) = removed_rows_a.data

IsCanonical(n) ==
    /\ n # <<>> => (n[1] \notin Whitespace /\ n[Len(n)] \notin Whitespace)
    /\ \A k \in 1..Len(n) : n[k] \in Whitespace =>
          /\ n[k] = " "
          /\ k < Len(n) => n[k + 1] \notin Whitespace
    /\ \A k \in 1..Len(n) : n[k] \notin {"a", "b", "c", "n"}

\* C9: normalize_name is idempotent, its values have no leading, trailing or
\* repeated whitespace, no whitespace but the space and no lowercase letter, and
\* its output has the length and order of its input.
C9_NormalizeCanonical ==
    pc = "returned" =>
        /\ normalize_name(normalized, astype_keeps_na) = normalized
        /\ Len(normalized) = Len(series)
        /\ \A i \in 1..Len(normalized) :
              /\ IsCanonical(normalized[i])
              /\ normalized[i] = normalize_name(<<series[i]>>, astype_keeps_na)[1]

C9_Witness ==
    /\ pc = "returned"
    /\ Len(series) = 2
    /\ series[1] = <<" ", "a", "\t", "B">>
    /\ normalized[1] = <<"A", " ", "B">>
    /\ normalized[2] # normalized[1]

\* C10: added rows plus the new rows whose non-empty key is in old's key set are
\* all the new rows with a non-empty key; likewise for removed and old.
C10_Cardinality ==
    Compared =>
        \A ka \in {Keys(df_a)}, kb \in {Keys(df_b)} :
           /\ Len(new_rows_b.data)
                 + Cardinality({i \in RowsOf(df_b) : kb[i] # <<>> /\ kb[i] \in a_set})
              = Cardinality({i \in RowsOf(df_b) : kb[i] # <<>>})
           /\ Len(removed_rows_a.data)
                 + Cardinality({i \in RowsOf(df_a) : ka[i] # <<>> /\ ka[i] \in b_set})
              = Cardinality({i \in RowsOf(df_a) : ka[i] # <<>>})

C10_Witness ==
    /\ Compared
    /\ Len(df_b.data) = 2
    /\ Len(new_rows_b.data) = 1
    /\ \E i \in RowsOf(df_b) : Keys(df_b)[i] \in a_set
    /\ Len(removed_rows_a.data) = 1

====
